---- MODULE Spec2Model ----
(***************************************************************************)
(* Client-side session, transport and rendering pipeline of the chat      *)
(* widget (frontend/chatbot/chatbot.js, chatbot.state.js, chatbot.api.js, *)
(* chatbot.dom.js).  One action is one task of the browser's event loop:  *)
(* an event handler, or the continuation of an async function after the   *)
(* network reply it awaited, run to its next await or to its return.      *)
(***************************************************************************)
EXTENDS Integers, Sequences, FiniteSets, TLC

\* ------------------------------------------------------------------ bounds
MaxFlows == 3        \* async flows started in the tab: bootstraps and non-blank submits
MaxReloads == 1      \* page reloads in the same tab

\* ------------------------------------------------------------ value domains
Null == "null"                       \* JS null (chat_id, data_var, final_message, waitStart)
NoTimer == 0                         \* JS null in state.fallbackTimer; timer handles are 1, 2, ...
StartHandshakes == { [id |-> "c1", data |-> "d1"] }   \* {id, data} of GET /chat/new
SendHandshakes == { [id |-> "c2", data |-> "d2"] }    \* {id, data} of POST /chat/{id}: rotated
UserTexts == { "Hallo" }             \* input.value.trim(), when not empty
Greeting == "greeting"               \* backend_result.message of GET /chat/new
BotReply == "reply"                  \* backend_result.message of POST /chat/{id}

\* The fixed German bot texts of the failure paths.
NotConnected == "Chatverbindung nicht hergestellt."
SendRetryApology == "Der Chat braucht gerade noch einen kleinen Moment, um zu starten."
SendGiveUpApology == "Es hat mit der Verbindung leider nicht ganz geklappt."
StartRetryApology == "Es scheint, dass es gerade ein kleines Problem beim Start des Chats gibt."
StartGiveUpApology == "Entschuldigung, ich konnte leider keine Verbindung aufbauen. Bitte laden Sie die Seite neu."

\* The depth of the two nested retry ladders.
StartAttemptsMut == 3 + 1
StartAttempts == 3                   \* startChat() calls of one startNewChatIfNeeded
SendAttemptsMut == 3 + 1
SendAttempts == 3                    \* sendChatMessage() calls of one submit

\* ------------------------------------------------------------------- state
VARIABLES
    state,      \* the in-memory session object of chatbot.state.js
    dom,        \* the widget's DOM: display, controls, typing-indicator block
    storage,    \* sessionStorage item 'chatbotState': <<>> (absent) or <<object>>
    timers,     \* handles of the pending setTimeout callbacks of this page
    page,       \* "unloaded" | "loaded" (module evaluated, onload pending) | "ready"
    flows,      \* the submit handlers started on this page, in order
    boots,      \* the startNewChatIfNeeded bootstraps started on this page, in order
    netCalls,   \* number of fetch() calls issued on this page
    started,    \* bootstraps and non-blank submits started in the tab so far
    reloads,    \* page reloads so far
    lastOk,     \* {id, data} of the backend response that completed most recently
    rawText,    \* chatbot.util.js: the text argument of renderMarkdown / splitIntoSubblocks
    html,       \* renderMarkdown: its return value, <<>> before the call
    maxLen,     \* splitIntoSubblocks: its second argument
    parts,      \* splitIntoSubblocks: the local parts
    cursor,     \* splitIntoSubblocks: the local cursor, as a 0-based index
    pc          \* chatbot.util.js: where the call stands

vars == <<state, dom, storage, timers, page, flows, boots, netCalls, started, reloads,
          lastOk, rawText, html, maxLen, parts, cursor, pc>>

\* The variables of the widget and those of a call into chatbot.util.js.
widget == <<state, dom, storage, timers, page, flows, boots, netCalls, started, reloads, lastOk>>
util == <<rawText, html, maxLen, parts, cursor, pc>>

\* export let state = {...}
DefaultState ==
    [ chat_id |-> Null,
      data_var |-> Null,
      chatStarted |-> FALSE,
      final_message |-> Null,
      chatMessages |-> <<>>,
      botIsTyping |-> TRUE,
      waitStart |-> Null,
      fallbackTimer |-> NoTimer ]

\* The widget markup as inserted by container.innerHTML = html: no inline
\* display, controls without a disabled attribute, no indicator block.
FreshDom ==
    [ widgetDisplay |-> "",
      inputDisabled |-> FALSE,
      submitDisabled |-> FALSE,
      indicator |-> "none" ]

Truthy(v) == v = "true"

\* --------------------------------------------------------- the session store

\* JSON.stringify(state) followed by JSON.parse: every value the session holds
\* (null, booleans, strings, timer numbers, the array of {sender, text}) is a
\* JSON value, so the object read back has the same keys and values.
SaveChatbotSession(w) == [w EXCEPT !.storage = <<w.state>>]

\* JSON.parse(sessionStorage.getItem('chatbotState') || '{}')
EmptyObject == [k \in {} |-> Null]
ParseItem(item) == IF item = <<>> THEN EmptyObject ELSE item[1]

\* Object.assign(state, saved), then the botIsTyping rule.
LoadChatbotSessionMut(s, saved) ==
    LET assigned == [k \in DOMAIN s |-> IF k \in DOMAIN saved THEN saved[k] ELSE s[k]]
    IN  [assigned EXCEPT !["botIsTyping"] = (Len(assigned["chatMessages"]) = 0)]
LoadChatbotSession(s, saved) ==
    LET assigned == [k \in DOMAIN s |-> IF k \in DOMAIN saved THEN saved[k] ELSE s[k]]
    IN  IF "botIsTyping" \in DOMAIN saved
        THEN assigned
        ELSE [assigned EXCEPT !["botIsTyping"] = (Len(assigned["chatMessages"]) = 0)]

\* ---------------------------------------------------------------- renderer

\* The mutable world a handler works on.  late: Date.now() is more than 8000 ms
\* after a waitStart set by an earlier task; fresh: waitStart was set in this task.
World(late) ==
    [ state |-> state, dom |-> dom, storage |-> storage, timers |-> timers,
      late |-> late, fresh |-> FALSE ]

PushMut(w, sender, text) ==
    [w EXCEPT !.state.chatMessages = <<[sender |-> sender, text |-> text]>> \o @]
Push(w, sender, text) ==
    [w EXCEPT !.state.chatMessages = Append(@, [sender |-> sender, text |-> text])]

RenderMessagesMut(w) ==
    LET typing == w.state.botIsTyping
        setNow == typing /\ w.state.waitStart = Null
        over == typing /\ ~setNow /\ ~w.fresh /\ w.late
        w1 == [w EXCEPT
                 !.dom.widgetDisplay = "block",
                 !.state.waitStart = IF typing THEN (IF setNow THEN "t" ELSE @) ELSE Null,
                 !.fresh = @ \/ setNow,
                 !.dom.indicator = IF typing THEN (IF over THEN "fallback" ELSE "dots") ELSE "none",
                 !.dom.inputDisabled = typing,
                 !.dom.submitDisabled = typing]
    IN  SaveChatbotSession(w1)
RenderMessages(w) ==
    LET typing == w.state.botIsTyping
        setNow == typing /\ w.state.waitStart = Null
        over == typing /\ ~setNow /\ ~w.fresh /\ w.late
        locked == Truthy(w.state.final_message)
        w1 == [w EXCEPT
                 !.dom.widgetDisplay = "block",
                 !.state.waitStart = IF typing THEN (IF setNow THEN "t" ELSE @) ELSE Null,
                 !.fresh = @ \/ setNow,
                 !.dom.indicator = IF typing THEN (IF over THEN "fallback" ELSE "dots") ELSE "none",
                 !.dom.inputDisabled = typing \/ locked,
                 !.dom.submitDisabled = typing \/ locked]
    IN  SaveChatbotSession(w1)

StartTypingIndicator(w, handle) ==
    LET w1 == [w EXCEPT !.state.botIsTyping = TRUE, !.state.waitStart = Null]
        w2 == RenderMessages(w1)
    IN  [w2 EXCEPT !.state.fallbackTimer = handle, !.timers = @ \cup {handle}]

StopTypingIndicator(w) ==
    LET w1 == [w EXCEPT !.state.botIsTyping = FALSE,
                        !.timers = @ \ {w.state.fallbackTimer},
                        !.state.waitStart = Null]
    IN  RenderMessages(w1)

\* The setTimeout callback of startTypingIndicator.
FallbackFires(h) ==
    /\ h \in timers
    /\ timers' = timers \ {h}
    /\ dom' = IF state.botIsTyping /\ dom.indicator # "none"
              THEN [dom EXCEPT !.indicator = "fallback"]
              ELSE dom
    /\ UNCHANGED <<state, storage, page, flows, boots, netCalls, started, reloads, lastOk, util>>

Commit(w) ==
    /\ state' = w.state
    /\ dom' = w.dom
    /\ storage' = w.storage
    /\ timers' = w.timers

\* ------------------------------------------------------- transport client

\* The backend's replies, as section 6 of the specification gives them.
StartResponses ==
    { [id |-> h.id, data |-> h.data, message |-> m] : h \in StartHandshakes, m \in {Greeting, Null} }
SendResponses ==
    { [id |-> h.id, data |-> h.data, message |-> BotReply, final |-> f] :
        h \in SendHandshakes, f \in BOOLEAN }

\* fetch(`${BACKEND_URL}/chat/${state.chat_id}`, {body: {asked_info, data, message}})
SendRequest(w, userEntry) ==
    [chatId |-> w.state.chat_id, data |-> w.state.data_var, message |-> userEntry]

\* startChat(), the try block after resp.json()
StartChatSucceeded(w, r) ==
    LET w1 == [w EXCEPT !.state.chat_id = r.id,
                        !.state.data_var = r.data,
                        !.state.chatStarted = TRUE,
                        !.state.waitStart = Null]
    IN  IF r.message # Null
        THEN RenderMessages([Push(w1, "bot", r.message) EXCEPT !.state.botIsTyping = FALSE])
        ELSE w1

\* startChat(), the catch block
StartChatFailed(w) ==
    RenderMessages([Push(w, "bot", StartRetryApology) EXCEPT !.state.botIsTyping = TRUE])

\* sendChatMessage(), the try block after resp.json()
SendChatMessageSucceededMut(w, r) ==
    LET w1 == [w EXCEPT !.state.final_message = IF r.final THEN "true" ELSE "false"]
        w2 == StopTypingIndicator(w1)
    IN  RenderMessages(Push(w2, "bot", r.message))
SendChatMessageSucceeded(w, r) ==
    LET w1 == [w EXCEPT !.state.final_message = IF r.final THEN "true" ELSE "false"]
        w2 == StopTypingIndicator(w1)
        w3 == RenderMessages(Push(w2, "bot", r.message))
    IN  [w3 EXCEPT !.state.chat_id = r.id, !.state.data_var = r.data]

\* sendChatMessage(), the catch block
SendChatMessageFailedMut(w) == RenderMessages(StopTypingIndicator(w))
SendChatMessageFailed(w) ==
    RenderMessages(StopTypingIndicator(Push(w, "bot", SendRetryApology)))

\* ------------------------------------------------------------ orchestrator

NewBoot == [status |-> "awaiting", attempts |-> 1, outcomes |-> <<>>, appended |-> <<>>]

\* window.startNewChatIfNeeded, up to its first await
StartNewChatIfNeededMut(w) ==
    /\ started < MaxFlows
    /\ Commit(RenderMessages(w))
    /\ boots' = Append(boots, NewBoot)
    /\ netCalls' = netCalls + 1
    /\ started' = started + 1
StartNewChatIfNeeded(w) ==
    IF w.state.chatStarted
    THEN /\ Commit(w)
         /\ UNCHANGED <<boots, netCalls, started>>
    ELSE /\ started < MaxFlows
         /\ Commit(RenderMessages(w))
         /\ boots' = Append(boots, NewBoot)
         /\ netCalls' = netCalls + 1
         /\ started' = started + 1

\* startNewChatIfNeeded resumed by a successful startChat()
StartReplyArrives(i, r) ==
    /\ i \in DOMAIN boots
    /\ boots[i].status = "awaiting"
    /\ Commit(SaveChatbotSession(StartChatSucceeded(World(FALSE), r)))
    /\ boots' = [boots EXCEPT ![i].status = "Started",
                              ![i].outcomes = Append(@, "ok"),
                              ![i].appended = IF r.message # Null THEN Append(@, r.message) ELSE @]
    /\ lastOk' = [id |-> r.id, data |-> r.data]
    /\ UNCHANGED <<page, flows, netCalls, started, reloads, util>>

\* startNewChatIfNeeded resumed by a failed startChat()
StartAttemptFails(i, late) ==
    /\ i \in DOMAIN boots
    /\ boots[i].status = "awaiting"
    /\ LET w1 == StartChatFailed(World(late))
       IN  IF boots[i].attempts < StartAttempts
           THEN /\ Commit(w1)
                /\ boots' = [boots EXCEPT ![i].attempts = @ + 1,
                                          ![i].outcomes = Append(@, "fail"),
                                          ![i].appended = Append(@, StartRetryApology)]
                /\ netCalls' = netCalls + 1
           ELSE /\ Commit(SaveChatbotSession(RenderMessages(Push(w1, "bot", StartGiveUpApology))))
                /\ boots' = [boots EXCEPT ![i].status = "GaveUp",
                                          ![i].outcomes = Append(@, "fail"),
                                          ![i].appended = @ \o <<StartRetryApology, StartGiveUpApology>>]
                /\ UNCHANGED netCalls
    /\ UNCHANGED <<page, flows, started, reloads, lastOk, util>>

\* if (!state.chat_id)
ChatIdMissingMut(w) == FALSE
ChatIdMissing(w) == w.state.chat_id = Null

\* The form's submit handler, up to its first await or its return.
\* ui: the event comes from the enabled controls of the visible widget.
Submit(userEntry, ui, late) ==
    /\ page # "unloaded"
    /\ started < MaxFlows
    /\ started' = started + 1
    /\ ui => (dom.widgetDisplay = "block" /\ ~dom.inputDisabled /\ ~dom.submitDisabled)
    /\ LET handle == Len(flows) + 1
           w1 == RenderMessages(Push(World(late), "user", userEntry))
           w2 == StartTypingIndicator(w1, handle)
           flow == [text |-> userEntry, chatAtSubmit |-> state.chat_id,
                    base |-> Len(state.chatMessages)]
       IN  IF ChatIdMissing(w2)
           THEN /\ Commit(Push(StopTypingIndicator(w2), "bot", NotConnected))
                /\ flows' = Append(flows, flow @@ [status |-> "Rejected", attempts |-> 0,
                                      outcomes |-> <<>>, reqs |-> <<>>,
                                      appended |-> <<NotConnected>>])
                /\ UNCHANGED netCalls
           ELSE /\ Commit(w2)
                /\ flows' = Append(flows, flow @@ [status |-> "awaiting", attempts |-> 1,
                                      outcomes |-> <<>>, reqs |-> <<SendRequest(w2, userEntry)>>,
                                      appended |-> <<>>])
                /\ netCalls' = netCalls + 1
    /\ UNCHANGED <<page, boots, reloads, lastOk, util>>

\* if (!userEntry) return;
SubmitBlank ==
    /\ page # "unloaded"
    /\ UNCHANGED vars

\* The submit handler resumed by a successful sendChatMessage()
SendReplyArrives(i, r) ==
    /\ i \in DOMAIN flows
    /\ flows[i].status = "awaiting"
    /\ Commit(SaveChatbotSession(SendChatMessageSucceeded(World(FALSE), r)))
    /\ flows' = [flows EXCEPT ![i].status = "Delivered",
                              ![i].outcomes = Append(@, "ok"),
                              ![i].appended = Append(@, r.message)]
    /\ lastOk' = [id |-> r.id, data |-> r.data]
    /\ UNCHANGED <<page, boots, netCalls, started, reloads, util>>

\* The submit handler resumed by a failed sendChatMessage()
SendAttemptFails(i) ==
    /\ i \in DOMAIN flows
    /\ flows[i].status = "awaiting"
    /\ LET w1 == SendChatMessageFailed(World(FALSE))
       IN  IF flows[i].attempts < SendAttempts
           THEN /\ Commit(w1)
                /\ flows' = [flows EXCEPT ![i].attempts = @ + 1,
                                          ![i].outcomes = Append(@, "fail"),
                                          ![i].reqs = Append(@, SendRequest(w1, flows[i].text)),
                                          ![i].appended = Append(@, SendRetryApology)]
                /\ netCalls' = netCalls + 1
           ELSE /\ Commit(SaveChatbotSession(RenderMessages(Push(w1, "bot", SendGiveUpApology))))
                /\ flows' = [flows EXCEPT ![i].status = "GaveUp",
                                          ![i].outcomes = Append(@, "fail"),
                                          ![i].appended = @ \o <<SendRetryApology, SendGiveUpApology>>]
                /\ UNCHANGED netCalls
    /\ UNCHANGED <<page, boots, started, reloads, lastOk, util>>

\* -------------------------------------------------------- embed bootstrap

\* The click handler of #open-chat-btn.
OpenChatClick ==
    \/ /\ page = "unloaded"                       \* load chatbot.html and the module
       /\ page' = "loaded"
       /\ state' = LoadChatbotSession(DefaultState, ParseItem(storage))
       /\ dom' = FreshDom
       /\ UNCHANGED <<storage, timers, flows, boots, netCalls, started, reloads, lastOk, util>>
    \/ /\ page # "unloaded"
       /\ dom.widgetDisplay \in {"", "none"}
       /\ \E late \in BOOLEAN :
            StartNewChatIfNeeded([World(late) EXCEPT !.dom.widgetDisplay = "block"])
       /\ UNCHANGED <<page, flows, reloads, lastOk, util>>
    \/ /\ page # "unloaded"
       /\ dom.widgetDisplay = "block"
       /\ dom' = [dom EXCEPT !.widgetDisplay = "none"]
       /\ UNCHANGED <<state, storage, timers, page, flows, boots, netCalls, started, reloads, lastOk, util>>

\* script.onload of the module script
ScriptOnload ==
    /\ page = "loaded"
    /\ page' = "ready"
    /\ \E late \in BOOLEAN : StartNewChatIfNeeded(World(late))
    /\ UNCHANGED <<flows, reloads, lastOk, util>>

\* document.querySelector('.chatbot-hide').onclick
HideClick ==
    /\ page # "unloaded"
    /\ dom.widgetDisplay = "block"
    /\ dom' = [dom EXCEPT !.widgetDisplay = "none"]
    /\ UNCHANGED <<state, storage, timers, page, flows, boots, netCalls, started, reloads, lastOk, util>>

\* The tab reloads the page: the module's memory, its DOM, its timers and its
\* pending promises are gone; sessionStorage stays.
Reload ==
    /\ page # "unloaded"
    /\ reloads < MaxReloads
    /\ reloads' = reloads + 1
    /\ page' = "unloaded"
    /\ state' = DefaultState
    /\ dom' = FreshDom
    /\ timers' = {}
    /\ flows' = <<>>
    /\ boots' = <<>>
    /\ netCalls' = 0
    /\ UNCHANGED <<storage, started, lastOk, util>>

\* No call into chatbot.util.js is being followed.
UtilIdle ==
    /\ rawText = <<>>
    /\ html = <<>>
    /\ maxLen = 0
    /\ parts = <<>>
    /\ cursor = 0
    /\ pc = "idle"

\* No backend response has completed yet.
NoResponse == [id |-> Null, data |-> Null]

\* The tab before the open button is clicked for the first time.
WidgetStart ==
    /\ lastOk = NoResponse
    /\ state = DefaultState
    /\ dom = FreshDom
    /\ storage = <<>>
    /\ timers = {}
    /\ page = "unloaded"
    /\ flows = <<>>
    /\ boots = <<>>
    /\ netCalls = 0
    /\ started = 0
    /\ reloads = 0

Init ==
    /\ UtilIdle
    /\ WidgetStart

Next ==
    \/ ScriptOnload
    \/ OpenChatClick
    \/ HideClick
    \/ Reload
    \/ SubmitBlank
    \/ \E t \in UserTexts, late \in BOOLEAN : Submit(t, TRUE, late)
    \/ \E i \in DOMAIN flows, r \in SendResponses : SendReplyArrives(i, r)
    \/ \E i \in DOMAIN flows : SendAttemptFails(i)
    \/ \E i \in DOMAIN boots, r \in StartResponses : StartReplyArrives(i, r)
    \/ \E i \in DOMAIN boots, late \in BOOLEAN : StartAttemptFails(i, late)
    \/ \E h \in timers : FallbackFires(h)

Spec == Init /\ [][Next]_vars

\* The same program when a submit event may also be dispatched on the form
\* while the widget is hidden or its controls are disabled (form.requestSubmit()
\* from a script): the handler is registered on the form and does not look at
\* the controls.
NextForced ==
    \/ Next
    \/ \E t \in UserTexts, late \in BOOLEAN : Submit(t, FALSE, late)

SpecForced == Init /\ [][NextForced]_vars

\* ---------------------------------------------------------- chatbot.util.js
\* A JavaScript string is modelled as the sequence of its characters, each a
\* one-character string; a regular expression as the operator that gives, for
\* a start position, the match the engine finds there and its replacement.

UpperCase ==
    <<"A", "B", "C", "D", "E", "F", "G", "H", "I", "J", "K", "L", "M", "N",
      "O", "P", "Q", "R", "S", "T", "U", "V", "W", "X", "Y", "Z">>
LowerCase ==
    <<"a", "b", "c", "d", "e", "f", "g", "h", "i", "j", "k", "l", "m", "n",
      "o", "p", "q", "r", "s", "t", "u", "v", "w", "x", "y", "z">>

Upper == {UpperCase[k] : k \in DOMAIN UpperCase}                  \* [A-Z]
Lower == {LowerCase[k] : k \in DOMAIN LowerCase}                  \* [a-z]
Digit == {"0", "1", "2", "3", "4", "5", "6", "7", "8", "9"}       \* [0-9]
Letter == Upper \cup Lower                                        \* [A-Za-z]
WordChar == Letter \cup Digit \cup {"_"}                          \* \w
Space == {" ", "\t", "\n", "\r", "\f"}                            \* \s
LineTerminator == {"\n", "\r"}                                    \* what . does not match
LocalChar == Letter \cup Digit \cup {".", "_", "%", "+", "-"}     \* [A-Za-z0-9._%+-]
DomainChar == Letter \cup Digit \cup {".", "-"}                   \* [A-Za-z0-9.-]

\* The i flag: letters compare by their lower-case form.
ToLowerCase(c) ==
    IF c \in Upper THEN LowerCase[CHOOSE k \in DOMAIN UpperCase : UpperCase[k] = c] ELSE c

Min(S) == CHOOSE m \in S : \A n \in S : m <= n
Max(S) == CHOOSE m \in S : \A n \in S : m >= n

\* s has the literal lit at position i (compared by lower case under the i flag)
HasAt(s, i, lit) ==
    /\ i >= 1
    /\ i + Len(lit) - 1 <= Len(s)
    /\ SubSeq(s, i, i + Len(lit) - 1) = lit
HasAtIgnoreCase(s, i, lit) ==
    /\ i >= 1
    /\ i + Len(lit) - 1 <= Len(s)
    /\ \A k \in DOMAIN lit : ToLowerCase(s[i + k - 1]) = lit[k]

\* The last position of the longest run of characters of cls (RunEnd), or of
\* characters outside cls (RunEndNot), that starts at i: what a greedy [..]* or
\* [^..]* consumes.  i - 1 when the run is empty.
RunEnd(s, i, cls) ==
    LET stops == {k \in i..Len(s) : s[k] \notin cls}
    IN  IF stops = {} THEN Len(s) ELSE Min(stops) - 1
RunEndNot(s, i, cls) ==
    LET stops == {k \in i..Len(s) : s[k] \in cls}
    IN  IF stops = {} THEN Len(s) ELSE Min(stops) - 1

\* \b at position i: between s[i-1] and s[i]
WordBoundary(s, i) ==
    (i > 1 /\ i - 1 <= Len(s) /\ s[i - 1] \in WordChar) # (i >= 1 /\ i <= Len(s) /\ s[i] \in WordChar)

\* String.prototype.replace with a g-flagged pattern that matches no empty
\* string: the leftmost match from the cursor on is replaced, the scan resumes
\* behind it.  m[i] is the match at i: [len, out], with len = 0 for "no match".
NoMatch == [len |-> 0, out |-> <<>>]
RECURSIVE ReplaceFrom(_, _, _)
ReplaceFrom(s, m, i) ==
    LET starts == {k \in i..Len(s) : m[k].len > 0}
        k == Min(starts)
    IN  IF starts = {}
        THEN SubSeq(s, i, Len(s))
        ELSE SubSeq(s, i, k - 1) \o m[k].out \o ReplaceFrom(s, m, k + m[k].len)
ReplaceAll(s, m) == ReplaceFrom(s, m, 1)

\* .replace(/c/g, lit) for a single character c
ReplaceChar(s, c, lit) ==
    ReplaceAll(s, [i \in DOMAIN s |-> IF s[i] = c THEN [len |-> 1, out |-> lit] ELSE NoMatch])

EscapeHTML(t) ==
    LET t1 == ReplaceChar(t, "&", <<"&", "a", "m", "p", ";">>)
        t2 == ReplaceChar(t1, "<", <<"&", "l", "t", ";">>)
        t3 == ReplaceChar(t2, ">", <<"&", "g", "t", ";">>)
        t4 == ReplaceChar(t3, "\"", <<"&", "q", "u", "o", "t", ";">>)
    IN  ReplaceChar(t4, "'", <<"&", "#", "3", "9", ";">>)

\* The end of s without its longest suffix (prefix) of characters of cls.
RECURSIVE TrimEnd(_, _)
TrimEnd(s, cls) ==
    IF s # <<>> /\ s[Len(s)] \in cls THEN TrimEnd(SubSeq(s, 1, Len(s) - 1), cls) ELSE s
RECURSIVE TrimStart(_, _)
TrimStart(s, cls) ==
    IF s # <<>> /\ s[1] \in cls THEN TrimStart(Tail(s), cls) ELSE s

\* s without its longest suffix of the form (/. | /..)+
RECURSIVE DropDotSegments(_)
DropDotSegments(s) ==
    IF HasAt(s, Len(s) - 2, <<"/", ".", ".">>) THEN DropDotSegments(SubSeq(s, 1, Len(s) - 3))
    ELSE IF HasAt(s, Len(s) - 1, <<"/", ".">>) THEN DropDotSegments(SubSeq(s, 1, Len(s) - 2))
    ELSE s

\* [)"'\]}>...]+ | [.,;:!?...]+ | [...-]+ : the ASCII members of the three
\* classes.  Their other members (U+203A, U+00BB, U+2026, U+2014, U+2013)
\* are not ASCII and occur in no text handed to the formatter here.
TrailingJunk ==
    {")", "\"", "'", "]", "}", ">", ".", ",", ";", ":", "!", "?", "-"}

CleanLink(url) ==
    LET s1 == TrimEnd(TrimStart(url, Space), Space)
        s2 == IF DropDotSegments(s1) # s1 THEN Append(DropDotSegments(s1), "/") ELSE s1
        s3 == TrimEnd(s2, TrailingJunk)
    IN  TrimEnd(s3, Space)

\* /\[([^\]]+)\]\(mailto:([^)]+)\)/gi  ->  "$2"
MailtoLink(s, i) ==
    LET j == RunEndNot(s, i + 1, {"]"}) + 1        \* the "]" behind [^\]]+
        u == j + 9                                 \* the first character of ([^)]+)
        k == RunEndNot(s, u, {")"}) + 1            \* the ")" behind it
    IN  IF /\ s[i] = "["
           /\ j > i + 1
           /\ HasAt(s, j, <<"]", "(">>)
           /\ HasAtIgnoreCase(s, j + 2, <<"m", "a", "i", "l", "t", "o", ":">>)
           /\ k > u
           /\ k <= Len(s)
        THEN [len |-> k - i + 1, out |-> SubSeq(s, u, k - 1)]
        ELSE NoMatch

\* /\b[A-Za-z0-9._%+-]+@[A-Za-z0-9.-]+\.[A-Za-z]{2,}\b/ from position i: the
\* last positions of the matches the engine can find, the greedy one the
\* largest.  The local part runs to the "@"; the domain ends with a "." of the
\* longest run of domain characters that is followed by two or more letters,
\* all of them, and a word boundary.
EmailEnds(s, i) ==
    LET a == RunEnd(s, i, LocalChar) + 1           \* the "@"
        d == RunEnd(s, a + 1, DomainChar)
        dots == {q \in (a + 2)..d :
                    /\ s[q] = "."
                    /\ RunEnd(s, q + 1, Letter) >= q + 2
                    /\ WordBoundary(s, RunEnd(s, q + 1, Letter) + 1)}
    IN  IF WordBoundary(s, i) /\ s[i] \in LocalChar /\ a <= Len(s) /\ s[a] = "@"
        THEN {RunEnd(s, q + 1, Letter) : q \in dots}
        ELSE {}

\* /(\b[A-Za-z0-9._%+-]+@[A-Za-z0-9.-]+\.[A-Za-z]{2,}\b)(.{0,4})\1/g  ->  "$1"
RepeatedEmail(s, i) ==
    LET cands == {c \in EmailEnds(s, i) \X (0..4) :
                     /\ \A x \in (c[1] + 1)..(c[1] + c[2]) :
                           x <= Len(s) /\ s[x] \notin LineTerminator
                     /\ HasAt(s, c[1] + c[2] + 1, SubSeq(s, i, c[1]))}
        e == Max({c[1] : c \in cands})
        k == Max({c[2] : c \in {b \in cands : b[1] = e}})
    IN  IF cands = {}
        THEN NoMatch
        ELSE [len |-> 2 * (e - i + 1) + k, out |-> SubSeq(s, i, e)]

\* /\[([^\]]+)\]\((https?:\/\/[^\s)]+)\)/g, with or without the i flag
\*   ->  '<a href="$2" target="_blank">$1</a>'
MarkdownLink(s, i, ignoreCase) ==
    LET j == RunEndNot(s, i + 1, {"]"}) + 1        \* the "]" behind [^\]]+
        u == j + 2                                 \* the "h" of http
        Has(lit) == IF ignoreCase THEN HasAtIgnoreCase(s, u, lit) ELSE HasAt(s, u, lit)
        scheme == IF Has(<<"h", "t", "t", "p", ":", "/", "/">>) THEN 7
                  ELSE IF Has(<<"h", "t", "t", "p", "s", ":", "/", "/">>) THEN 8 ELSE 0
        k == RunEndNot(s, u + scheme, Space \cup {")"}) + 1
    IN  IF /\ s[i] = "["
           /\ j > i + 1
           /\ HasAt(s, j, <<"]", "(">>)
           /\ scheme > 0
           /\ k > u + scheme
           /\ k <= Len(s)
           /\ s[k] = ")"
        THEN [len |-> k - i + 1,
              out |-> <<"<", "a", " ", "h", "r", "e", "f", "=", "\"">> \o SubSeq(s, u, k - 1)
                      \o <<"\"", " ", "t", "a", "r", "g", "e", "t", "=", "\"", "_", "b", "l", "a", "n", "k", "\"", ">">>
                      \o SubSeq(s, i + 1, j - 1) \o <<"<", "/", "a", ">">>]
        ELSE NoMatch
LinkIgnoringCase(s, i) == MarkdownLink(s, i, TRUE)
LinkMatchingCase(s, i) == MarkdownLink(s, i, FALSE)

\* /(\b[A-Za-z0-9._%+-]+@[A-Za-z0-9.-]+\.[A-Za-z]{2,}\b)/g
\*   ->  '<a href="mailto:$1">$1</a>'
EmailLink(s, i) ==
    LET ends == EmailEnds(s, i)
        email == SubSeq(s, i, Max(ends))
    IN  IF ends = {}
        THEN NoMatch
        ELSE [len |-> Len(email),
              out |-> <<"<", "a", " ", "h", "r", "e", "f", "=", "\"", "m", "a", "i", "l", "t", "o", ":">> \o email \o <<"\"", ">">> \o email \o <<"<", "/", "a", ">">>]

\* /\*\*(.*?)\*\*/g and /__(.*?)__/g  ->  "<b>$1</b>"
Strong(s, i, c) ==
    LET closers == {j \in (i + 2)..(Len(s) - 1) :
                       /\ s[j] = c
                       /\ s[j + 1] = c
                       /\ \A x \in (i + 2)..(j - 1) : s[x] \notin LineTerminator}
        j == Min(closers)
    IN  IF HasAt(s, i, <<c, c>>) /\ closers # {}
        THEN [len |-> j + 2 - i,
              out |-> <<"<", "b", ">">> \o SubSeq(s, i + 2, j - 1) \o <<"<", "/", "b", ">">>]
        ELSE NoMatch
StrongStars(s, i) == Strong(s, i, "*")
StrongUnderscores(s, i) == Strong(s, i, "_")

\* What (\s|\A) matches: without the u flag \A is an identity escape, the
\* letter A, and not an anchor.
SpaceOrA == Space \cup {"A"}

\* /(\s|\A)\*(?!\*)([^\*]+)\*/g and /(\s|\A)_(?!_)([^_]+)_/g  ->  "$1<i>$2</i>"
Emphasis(s, i, c) ==
    LET j == RunEndNot(s, i + 2, {c}) + 1          \* the closing delimiter
    IN  IF /\ s[i] \in SpaceOrA
           /\ HasAt(s, i + 1, <<c>>)
           /\ j > i + 2
           /\ j <= Len(s)
        THEN [len |-> j - i + 1,
              out |-> <<s[i]>> \o <<"<", "i", ">">> \o SubSeq(s, i + 2, j - 1) \o <<"<", "/", "i", ">">>]
        ELSE NoMatch
EmphasisStars(s, i) == Emphasis(s, i, "*")
EmphasisUnderscores(s, i) == Emphasis(s, i, "_")

\* /^\* (.*)$/gm  ->  "&bull; $1"
Bullet(s, i) ==
    LET e == RunEndNot(s, i + 2, LineTerminator)   \* the end of the line
    IN  IF (i = 1 \/ s[i - 1] \in LineTerminator) /\ HasAt(s, i, <<"*", " ">>)
        THEN [len |-> e - i + 1, out |-> <<"&", "b", "u", "l", "l", ";", " ">> \o SubSeq(s, i + 2, e)]
        ELSE NoMatch

\* /(^|\s)(www\.[^\s<]+)/g and /(^|\s)((https?:\/\/)[^\s<]+)/g, replaced by the
\* anchor the callback builds around cleanLink(url).  prefixes: the literals
\* the url may begin with; hrefScheme: what the callback puts before the url.
AutoLink(s, i, prefixes, hrefScheme) ==
    LET UrlAt(u) == \E p \in prefixes :
                        HasAt(s, u, p) /\ RunEndNot(s, u + Len(p), Space \cup {"<"}) >= u + Len(p)
        u == IF i = 1 /\ UrlAt(1) THEN 1
             ELSE IF s[i] \in Space /\ UrlAt(i + 1) THEN i + 1 ELSE 0
        e == RunEndNot(s, u, Space \cup {"<"})
        url == CleanLink(SubSeq(s, u, e))
    IN  IF u > 0
        THEN [len |-> e - i + 1,
              out |-> SubSeq(s, i, u - 1) \o <<"<", "a", " ", "h", "r", "e", "f", "=", "\"">> \o hrefScheme \o url
                      \o <<"\"", " ", "t", "a", "r", "g", "e", "t", "=", "\"", "_", "b", "l", "a", "n", "k", "\"", " ", "r", "e", "l", "=", "\"", "n", "o", "o", "p", "e", "n", "e", "r", " ", "n", "o", "r", "e", "f", "e", "r", "r", "e", "r", "\"", ">">>
                      \o url \o <<" ", " ", "<", "/", "a", ">">>]
        ELSE NoMatch
WwwLink(s, i) == AutoLink(s, i, {<<"w", "w", "w", ".">>}, <<"h", "t", "t", "p", ":", "/", "/">>)
HttpLink(s, i) == AutoLink(s, i, {<<"h", "t", "t", "p", ":", "/", "/">>, <<"h", "t", "t", "p", "s", ":", "/", "/">>}, <<>>)

\* One pass of renderMarkdown: text.replace(/.../g, ...) with the matcher named.
ReplaceMailtoLink(s) == ReplaceAll(s, [i \in DOMAIN s |-> MailtoLink(s, i)])
ReplaceRepeatedEmail(s) == ReplaceAll(s, [i \in DOMAIN s |-> RepeatedEmail(s, i)])
ReplaceLinkIgnoringCase(s) == ReplaceAll(s, [i \in DOMAIN s |-> LinkIgnoringCase(s, i)])
ReplaceEmailLink(s) == ReplaceAll(s, [i \in DOMAIN s |-> EmailLink(s, i)])
ReplaceStrongStars(s) == ReplaceAll(s, [i \in DOMAIN s |-> StrongStars(s, i)])
ReplaceStrongUnderscores(s) == ReplaceAll(s, [i \in DOMAIN s |-> StrongUnderscores(s, i)])
ReplaceEmphasisStars(s) == ReplaceAll(s, [i \in DOMAIN s |-> EmphasisStars(s, i)])
ReplaceEmphasisUnderscores(s) == ReplaceAll(s, [i \in DOMAIN s |-> EmphasisUnderscores(s, i)])
ReplaceLinkMatchingCase(s) == ReplaceAll(s, [i \in DOMAIN s |-> LinkMatchingCase(s, i)])
ReplaceBullet(s) == ReplaceAll(s, [i \in DOMAIN s |-> Bullet(s, i)])
ReplaceWwwLink(s) == ReplaceAll(s, [i \in DOMAIN s |-> WwwLink(s, i)])
ReplaceHttpLink(s) == ReplaceAll(s, [i \in DOMAIN s |-> HttpLink(s, i)])

RenderMarkdown(t0) ==
    LET t1 == ReplaceMailtoLink(t0)
        t2 == ReplaceRepeatedEmail(t1)
        h0 == EscapeHTML(t2)
        h1 == ReplaceLinkIgnoringCase(h0)
        h2 == ReplaceEmailLink(h1)
        h3 == ReplaceStrongStars(h2)
        h4 == ReplaceStrongUnderscores(h3)
        h5 == ReplaceEmphasisStars(h4)
        h6 == ReplaceEmphasisUnderscores(h5)
        h7 == ReplaceLinkMatchingCase(h6)
        h8 == ReplaceBullet(h7)
        h9 == ReplaceWwwLink(h8)
        h10 == ReplaceHttpLink(h9)
    IN  ReplaceChar(h10, "\n", <<"<", "b", "r", ">">>)

\* ------------------------------------------------- calls into chatbot.util.js

MaxFragments == 3    \* pieces joined into one text handed to renderMarkdown

\* The pieces of the texts: markdown delimiters, the characters escapeHTML
\* replaces, link, e-mail and url syntax, line breaks.
MarkdownFragments ==
    { <<"_", "a", "_">>,
      <<" ">>,
      <<"b">>,
      <<"_">>,
      <<"*">>,
      <<"*", "*">>,
      <<"<">>,
      <<">">>,
      <<"&">>,
      <<"\"">>,
      <<"'">>,
      <<"[", "x", "]", "(", "h", "t", "t", "p", ":", "/", "/">>,
      <<"y", ")">>,
      <<")">>,
      <<"a", "@", "b", ".", "c", "d">>,
      <<"w", "w", "w", ".", "e">>,
      <<"\n">>,
      <<"A">>,
      <<"[", "x", "]", "(", "m", "a", "i", "l", "t", "o", ":">>,
      <<"*", " ">>,
      <<"/", ".", ".">> }
RECURSIVE Joined(_)
Joined(n) ==
    IF n = 0 THEN {<<>>} ELSE {a \o b : a \in Joined(n - 1), b \in MarkdownFragments}
MarkdownTexts == UNION {Joined(n) : n \in 1..MaxFragments}

\* div.innerHTML = `... ${renderMarkdown(block)} ...` for one bot text
InitMarkdown ==
    /\ WidgetStart
    /\ rawText \in MarkdownTexts
    /\ html = <<>>
    /\ maxLen = 0
    /\ parts = <<>>
    /\ cursor = 0
    /\ pc = "renderMarkdown"

RenderMarkdownCall ==
    /\ pc = "renderMarkdown"
    /\ html' = RenderMarkdown(rawText)
    /\ pc' = "rendered"
    /\ UNCHANGED <<rawText, maxLen, parts, cursor, widget>>

SpecMarkdown == InitMarkdown /\ [][RenderMarkdownCall]_vars

\* splitIntoSubblocks(text, maxLen), followed statement by statement.  Indices
\* are those of the code, 0-based: character k of the code is rawText[k + 1].

MaxTextLen == 5      \* length of the texts handed to splitIntoSubblocks
MaxMaxLen == 3       \* largest maxLen

\* Letters, an upper-case letter, and the characters the splitter looks for.
SplitChars == {"a", "B", "\n", ".", " "}
SplitTexts == UNION {[1..n -> SplitChars] : n \in 0..MaxTextLen}

\* text.slice(from, to), for 0 <= from and to <= text.length
Slice(t, from, to) == SubSeq(t, from + 1, to)

\* snippet.lastIndexOf(lit): the largest index at which lit occurs, or -1
LastIndexOf(snippet, lit) ==
    LET found == {k \in 1..Len(snippet) : HasAt(snippet, k, lit)}
    IN  IF found = {} THEN -1 ELSE Max(found) - 1

\* text.split(/\n{2}(?=[A-Z])/), from position i of t on
RECURSIVE SplitFrom(_, _)
SplitFrom(t, i) ==
    LET seps == {k \in i..(Len(t) - 2) : t[k] = "\n" /\ t[k + 1] = "\n" /\ t[k + 2] \in Upper}
    IN  IF seps = {}
        THEN <<SubSeq(t, i, Len(t))>>
        ELSE <<SubSeq(t, i, Min(seps) - 1)>> \o SplitFrom(t, Min(seps) + 2)

\* Math.max(snippet.lastIndexOf('\n'), snippet.lastIndexOf(". "))
Separator(snippet) ==
    LET nl == LastIndexOf(snippet, <<"\n">>)
        stop == LastIndexOf(snippet, <<".", " ">>)
    IN  IF nl >= stop THEN nl ELSE stop

\* The cursor after one iteration: cursor += sep + 1, or cursor = next
AdvanceMut(c, sep, next) == IF sep > -1 THEN c + sep ELSE next
Advance(c, sep, next) == IF sep > -1 THEN c + sep + 1 ELSE next

\* p.trim().length
NotBlank(p) == TrimEnd(TrimStart(p, Space), Space) # <<>>

InitSplit ==
    /\ WidgetStart
    /\ rawText \in SplitTexts
    /\ maxLen \in 1..MaxMaxLen
    /\ html = <<>>
    /\ parts = <<>>
    /\ cursor = 0
    /\ pc = "split"

\* The call, up to the while loop or, when the loop is skipped, the filter.
SplitCall ==
    /\ pc = "split"
    /\ LET split == SplitFrom(rawText, 1)
       IN  IF Len(split) = 1 /\ Len(rawText) > maxLen
           THEN parts' = <<>> /\ cursor' = 0 /\ pc' = "chunking"
           ELSE parts' = split /\ cursor' = cursor /\ pc' = "filtering"
    /\ UNCHANGED <<rawText, maxLen, html, widget>>

\* One iteration of while (cursor < text.length)
ChunkStep ==
    /\ pc = "chunking"
    /\ cursor < Len(rawText)
    /\ LET next == IF Len(rawText) <= cursor + maxLen THEN Len(rawText) ELSE cursor + maxLen
           snippet == Slice(rawText, cursor, next)
           sep == Separator(snippet)
       IN  /\ parts' = Append(parts, IF sep > -1
                                     THEN Slice(rawText, cursor, cursor + sep)
                                     ELSE snippet)
           /\ cursor' = Advance(cursor, sep, next)
    /\ UNCHANGED <<rawText, maxLen, html, pc, widget>>

\* The loop is left, or was skipped: return parts.filter(p => p.trim().length)
SplitReturn ==
    /\ \/ pc = "filtering"
       \/ pc = "chunking" /\ ~(cursor < Len(rawText))
    /\ parts' = SelectSeq(parts, NotBlank)
    /\ pc' = "returned"
    /\ UNCHANGED <<rawText, maxLen, html, cursor, widget>>

NextSplit == SplitCall \/ ChunkStep \/ SplitReturn

\* The call runs on: JavaScript executes the next statement.
SpecSplit == InitSplit /\ [][NextSplit]_vars /\ WF_vars(NextSplit)

\* ------------------------------------------------------------------ claims

Bot(text) == [sender |-> "bot", text |-> text]
User(text) == [sender |-> "user", text |-> text]
BotMessages(texts) == [k \in DOMAIN texts |-> Bot(texts[k])]
After(seq, from) == SubSeq(seq, from + 1, Len(seq))
IsPrefix(a, b) == Len(a) <= Len(b) /\ SubSeq(b, 1, Len(a)) = a
AllFail(outcomes) == \A k \in DOMAIN outcomes : outcomes[k] = "fail"

\* A step of the submit flow i or of the bootstrap flow i appends to
\* state.chatMessages exactly the bot texts the flow records in that step.
FlowsAppendWhatTheyRecord ==
    /\ \A i \in DOMAIN flows \cap DOMAIN flows' :
         flows'[i] # flows[i] =>
           state'.chatMessages =
             state.chatMessages \o BotMessages(After(flows'[i].appended, Len(flows[i].appended)))
    /\ \A i \in DOMAIN boots \cap DOMAIN boots' :
         boots'[i] # boots[i] =>
           state'.chatMessages =
             state.chatMessages \o BotMessages(After(boots'[i].appended, Len(boots[i].appended)))

\* A submit handler starts in this step.
SubmitStarts == Len(flows') = Len(flows) + 1
NewFlow == flows'[Len(flows')]

\* C1: no send request is ever issued with a null chatId, on the first attempt
\* or on a retry; a non-blank submit while chatId is null appends exactly the
\* user message and then "Chatverbindung nicht hergestellt.", leaves
\* botIsTyping false and issues no network request.
C1_RequestsCarryChatId ==
    \A i \in DOMAIN flows :
        /\ Len(flows[i].reqs) = flows[i].attempts
        /\ \A k \in DOMAIN flows[i].reqs : flows[i].reqs[k].chatId # Null
        /\ flows[i].chatAtSubmit = Null =>
              flows[i].status = "Rejected" /\ flows[i].attempts = 0
C1_RejectedLocally ==
    (SubmitStarts /\ state.chat_id = Null) =>
        /\ state'.chatMessages =
              state.chatMessages \o <<User(NewFlow.text), Bot(NotConnected)>>
        /\ state'.botIsTyping = FALSE
        /\ netCalls' = netCalls
        /\ NewFlow.status = "Rejected"
C1_NoSendWithoutChatId == []C1_RequestsCarryChatId /\ [][C1_RejectedLocally]_vars
C1_Witness ==
    /\ \E i \in DOMAIN flows : flows[i].status = "Rejected"
    /\ \E i \in DOMAIN flows : flows[i].attempts >= 2

\* C2: the attempts of one submit are issued one after another, each retry only
\* after the attempt before it failed; the flow stops at its first success and
\* issues at most 3 attempts; two failures and then a success end Delivered
\* after exactly 3 attempts, with the reply appended and no give-up apology.
C2_FlowShape ==
    \A i \in DOMAIN flows :
        LET f == flows[i] IN
        /\ f.attempts <= 3
        /\ Len(f.reqs) = f.attempts
        /\ Len(f.outcomes) = IF f.status = "awaiting" THEN f.attempts - 1 ELSE f.attempts
        /\ \A k \in DOMAIN f.outcomes : k < Len(f.outcomes) => f.outcomes[k] = "fail"
        /\ f.status = "awaiting" => AllFail(f.outcomes)
        /\ f.status = "Delivered" <=>
              (f.outcomes # <<>> /\ f.outcomes[Len(f.outcomes)] = "ok")
        /\ f.outcomes = <<"fail", "fail", "ok">> =>
              /\ f.status = "Delivered"
              /\ f.attempts = 3
              /\ f.appended = <<SendRetryApology, SendRetryApology, BotReply>>
C2_BoundedSequentialRetry == []C2_FlowShape /\ [][FlowsAppendWhatTheyRecord]_vars
C2_Witness ==
    \E i \in DOMAIN flows :
        flows[i].outcomes = <<"fail", "fail", "ok">> /\ flows[i].status = "Delivered"

\* C3 as stated: a flow whose three attempts all fail ends GaveUp after exactly
\* 3 attempts and has appended exactly one apology bot message.
C3_OneApologyInAll ==
    \A i \in DOMAIN flows :
        flows[i].status = "GaveUp" =>
            flows[i].attempts = 3 /\ Len(flows[i].appended) = 1

\* C3 amended: a flow whose three attempts all fail ends GaveUp after exactly 3
\* attempts; each failed attempt appends the connectivity apology and the flow
\* then appends exactly one give-up apology, as its last message: four bot
\* messages in all.
C3_GaveUpShape ==
    \A i \in DOMAIN flows :
        LET f == flows[i] IN
        /\ f.status = "GaveUp" <=> f.outcomes = <<"fail", "fail", "fail">>
        /\ f.status = "GaveUp" =>
              /\ f.attempts = 3
              /\ f.appended = <<SendRetryApology, SendRetryApology, SendRetryApology,
                                SendGiveUpApology>>
        /\ f.status # "GaveUp" => \A k \in DOMAIN f.appended : f.appended[k] # SendGiveUpApology
C3_GaveUpAfterThree == []C3_GaveUpShape /\ [][FlowsAppendWhatTheyRecord]_vars
C3_Witness == \E i \in DOMAIN flows : flows[i].status = "GaveUp"

\* C4: one bootstrap calls startConversation at most 3 times, stops at its
\* first success, and appends the "could not connect, please reload" message,
\* as its last message, exactly when all 3 attempts failed.
C4_BootShape ==
    \A i \in DOMAIN boots :
        LET b == boots[i] IN
        /\ b.attempts <= 3
        /\ Len(b.outcomes) = IF b.status = "awaiting" THEN b.attempts - 1 ELSE b.attempts
        /\ \A k \in DOMAIN b.outcomes : k < Len(b.outcomes) => b.outcomes[k] = "fail"
        /\ b.status = "awaiting" => AllFail(b.outcomes)
        /\ b.status = "Started" <=>
              (b.outcomes # <<>> /\ b.outcomes[Len(b.outcomes)] = "ok")
        /\ b.outcomes = <<"fail", "fail", "fail">> <=>
              (b.appended # <<>> /\ b.appended[Len(b.appended)] = StartGiveUpApology)
        /\ \A k \in DOMAIN b.appended :
              b.appended[k] = StartGiveUpApology => k = Len(b.appended)
C4_BoundedBootstrap == []C4_BootShape /\ [][FlowsAppendWhatTheyRecord]_vars
C4_Witness ==
    \E i \in DOMAIN boots :
        /\ boots[i].status = "GaveUp"
        /\ state.chatMessages # <<>>
        /\ state.chatMessages[Len(state.chatMessages)] = Bot(StartGiveUpApology)

InputEnabled(d) == ~d.inputDisabled /\ ~d.submitDisabled
InputLocked(d) == d.inputDisabled /\ d.submitDisabled
SendInFlight == \E i \in DOMAIN flows : flows[i].status = "awaiting"

\* C5, for the steps of the session's first page load: once finalMessage is
\* true it stays true and the input and submit controls stay disabled.
C5_FinalIsTerminal ==
    [][(Truthy(state.final_message) /\ reloads' = 0) =>
          (Truthy(state'.final_message) /\ InputLocked(dom'))]_vars

\* A send flow or a bootstrap gives up in this step.
SendGivesUp ==
    \E i \in DOMAIN flows \cap DOMAIN flows' :
        flows[i].status = "awaiting" /\ flows'[i].status = "GaveUp"
StartGivesUp ==
    \E i \in DOMAIN boots \cap DOMAIN boots' :
        boots[i].status = "awaiting" /\ boots'[i].status = "GaveUp"

\* C6: when a send flow or a bootstrap has given up after its 3 failed attempts
\* and finalMessage is not set, botIsTyping is false and the input and submit
\* controls are enabled.
C6_InteractiveAfterGiveUp ==
    [][((SendGivesUp \/ StartGivesUp) /\ ~Truthy(state'.final_message)) =>
          (~state'.botIsTyping /\ InputEnabled(dom'))]_vars

\* C7: while a backend request is in flight, botIsTyping is true; stated for
\* the attempts of sendMessage, the first and the retries.
C7_TypingWhileInFlight == SendInFlight => state.botIsTyping

\* C8: within a page load, every step leaves the earlier value of messages a
\* prefix of the later one.
C8_MessagesAppendOnly ==
    [][page' # "unloaded" => IsPrefix(state.chatMessages, state'.chatMessages)]_vars
C8_Witness ==
    /\ Len(state.chatMessages) >= 5
    /\ \E i \in DOMAIN flows : flows[i].status = "Delivered"
    /\ \E i \in DOMAIN flows : flows[i].status = "Rejected"

\* C9: between tasks, once the session has been stored, the stored session
\* equals the in-memory one in messages, chatId, dataVar, chatStarted,
\* finalMessage and botIsTyping.
MirroredFields ==
    {"chatMessages", "chat_id", "data_var", "chatStarted", "final_message", "botIsTyping"}
C9_StorageMirrorsMemory ==
    (page # "unloaded" /\ storage # <<>>) =>
        \A k \in MirroredFields : storage[1][k] = state[k]

\* The module has been evaluated and no handler has run since.
JustLoaded == page = "loaded" /\ boots = <<>> /\ flows = <<>> /\ dom = FreshDom

\* C10: after the load of a page and before any handler runs, every field of a
\* stored session has its stored value, botIsTyping included; with nothing
\* stored every field has its default and botIsTyping is (messages is empty).
C10_LoadRestoresSaved ==
    JustLoaded =>
        IF storage # <<>>
        THEN \A k \in DOMAIN DefaultState : state[k] = storage[1][k]
        ELSE /\ \A k \in DOMAIN DefaultState \ {"botIsTyping"} : state[k] = DefaultState[k]
             /\ state.botIsTyping = (state.chatMessages = <<>>)
C10_Witness ==
    /\ JustLoaded
    /\ storage # <<>>
    /\ state.chatMessages # <<>>
    /\ state.botIsTyping
    /\ state.chat_id # Null

\* C11: after the load of a page and before any handler runs, a session with
\* nothing stored has botIsTyping true, and a session resumed from storage with
\* a non-empty message list has botIsTyping false.
C11_ResumedStartsNonTyping ==
    JustLoaded =>
        /\ storage = <<>> => state.botIsTyping
        /\ (storage # <<>> /\ state.chatMessages # <<>>) => ~state.botIsTyping

\* A step that calls startNewChatIfNeeded: script.onload, or a click on the
\* open button while the widget is not shown.
CallsStartNewChatIfNeeded ==
    \/ ScriptOnload
    \/ (page # "unloaded" /\ dom.widgetDisplay \in {"", "none"} /\ OpenChatClick)

\* C12: a call of startNewChatIfNeeded made while chatStarted is true issues no
\* request, starts no bootstrap and leaves the session, in memory and in
\* storage, unchanged.
C12_GuardedBootstrap ==
    [][(CallsStartNewChatIfNeeded /\ state.chatStarted) =>
          (netCalls' = netCalls /\ boots' = boots /\ state' = state /\ storage' = storage)]_vars
C12_Witness ==
    /\ reloads = 1
    /\ page = "ready"
    /\ state.chatStarted
    /\ dom.widgetDisplay = "block"
    /\ boots = <<>>
    /\ flows = <<>>

\* A request is issued for flow i in this step: its first, or a retry.
IssuesRequest(i) ==
    /\ i \in DOMAIN flows'
    /\ flows'[i].reqs # <<>>
    /\ i \in DOMAIN flows => Len(flows'[i].reqs) > Len(flows[i].reqs)
IssuedRequest(i) == flows'[i].reqs[Len(flows'[i].reqs)]

\* An attempt of a send flow or of a bootstrap fails in this step.
AttemptFails ==
    \/ \E i \in DOMAIN flows \cap DOMAIN flows' :
          Len(flows'[i].outcomes) > Len(flows[i].outcomes)
            /\ flows'[i].outcomes[Len(flows'[i].outcomes)] = "fail"
    \/ \E i \in DOMAIN boots \cap DOMAIN boots' :
          Len(boots'[i].outcomes) > Len(boots[i].outcomes)
            /\ boots'[i].outcomes[Len(boots'[i].outcomes)] = "fail"

\* C13 as stated, its last clause: every retry of a flow resends the chatId,
\* the data and the user text of the flow's first attempt.
C13_RetryResendsSame ==
    \A i \in DOMAIN flows :
        \A k \in DOMAIN flows[i].reqs : flows[i].reqs[k] = flows[i].reqs[1]

\* C13 amended: the session holds the id and data of the response that
\* completed most recently; every request, first attempt or retry, carries
\* them and the flow's user text; a failed attempt changes neither value.
C13_HoldsLatest ==
    page # "unloaded" => (state.chat_id = lastOk.id /\ state.data_var = lastOk.data)
C13_CarriesLatest ==
    /\ \A i \in DOMAIN flows' :
         IssuesRequest(i) =>
            IssuedRequest(i) = [chatId |-> lastOk'.id, data |-> lastOk'.data,
                                message |-> flows'[i].text]
    /\ AttemptFails =>
         (state'.chat_id = state.chat_id /\ state'.data_var = state.data_var
            /\ lastOk' = lastOk)
C13_ResendsLatestHandshake == []C13_HoldsLatest /\ [][C13_CarriesLatest]_vars
C13_Witness ==
    \E i \in DOMAIN flows :
        /\ Len(flows[i].reqs) >= 2
        /\ flows[i].reqs[1].chatId # flows[i].reqs[2].chatId
        /\ flows[i].reqs[2].chatId = lastOk.id

\* The openings of the tags the formatter writes.
FormatterTags ==
    { <<"<", "a", " ", "h", "r", "e", "f", "=", "\"">>,
      <<"<", "/", "a", ">">>,
      <<"<", "b", ">">>,
      <<"<", "/", "b", ">">>,
      <<"<", "i", ">">>,
      <<"<", "/", "i", ">">>,
      <<"<", "b", "r", ">">> }
OnlyFormatterTags(h) ==
    \A i \in DOMAIN h : h[i] = "<" => \E t \in FormatterTags : HasAt(h, i, t)

\* Every tag of h is closed by a ">" before another "<" follows, and holds an
\* even number of quotes: no tag stands inside a tag or inside an attribute
\* value, and no attribute value is left open or closed early.
TagsIntact(h) ==
    \A i \in DOMAIN h :
        h[i] = "<" =>
            LET j == RunEndNot(h, i + 1, {"<", ">"}) + 1
            IN  /\ j <= Len(h)
                /\ h[j] = ">"
                /\ Cardinality({x \in i..j : h[x] = "\""}) % 2 = 0

\* C14: in the output of renderMarkdown every "<" opens a tag the formatter
\* writes, and the raw text never closes or extends a tag or an attribute the
\* formatter wrote: the tags of the output are intact.
C14_HtmlSafe ==
    pc = "rendered" => (OnlyFormatterTags(html) /\ TagsIntact(html))

\* C15: a single-delimiter span at the very start of the string, or behind
\* whitespace, becomes an italic span: "_a_ b" renders as "<i>a</i> b" and
\* " _a_ b" as " <i>a</i> b", while "_a_b_" gets no italic span.
C15_ItalicAtStartOrAfterSpace ==
    pc = "rendered" =>
        /\ rawText = <<"_", "a", "_", " ", "b">> =>
              html = <<"<", "i", ">", "a", "<", "/", "i", ">", " ", "b">>
        /\ rawText = <<" ", "_", "a", "_", " ", "b">> =>
              html = <<" ", "<", "i", ">", "a", "<", "/", "i", ">", " ", "b">>
        /\ rawText = <<"_", "a", "_", "b", "_">> =>
              \A i \in DOMAIN html : ~HasAt(html, i, <<"<", "i", ">">>)

\* C16: with submits made through the enabled controls only, at most one
\* sendMessage request is outstanding.
C16_OneOutstandingRequest ==
    Cardinality({i \in DOMAIN flows : flows[i].status = "awaiting"}) <= 1

\* C17, its cancellation clause: once the response handler of a wait has run
\* stopTypingIndicator, by a reply or by the last failure, the fallback timer
\* armed for that wait (the submit handler of flow i arms handle i) is no
\* longer pending.
C17_CancelledOnceAnswered ==
    \A i \in DOMAIN flows : flows[i].status \in {"Delivered", "GaveUp"} => i \notin timers

\* C17, its guard clause: the timer callback changes the display only while
\* botIsTyping is true, and changes neither the session nor its stored copy.
C17_FallbackIsGuarded ==
    [][(\E h \in timers : FallbackFires(h)) =>
          /\ dom' # dom => state.botIsTyping
          /\ state' = state
          /\ storage' = storage]_vars

\* renderMessages has run on this page: every bootstrap and every submit
\* handler begins with it.
Rendered == page # "unloaded" /\ (boots # <<>> \/ flows # <<>>)

\* C18: from the first render of a page on, between any two tasks, the input
\* box and the submit control are both disabled when botIsTyping is true or
\* finalMessage is set, and both enabled otherwise.
C18_ControlsFollowFlags ==
    Rendered =>
        /\ dom.inputDisabled = (state.botIsTyping \/ Truthy(state.final_message))
        /\ dom.submitDisabled = (state.botIsTyping \/ Truthy(state.final_message))
C18_Witness ==
    /\ Rendered
    /\ Truthy(state.final_message)
    /\ ~state.botIsTyping
    /\ InputLocked(dom)

\* C19: every block splitIntoSubblocks returns is at most maxLen long.
C19_BlocksWithinMaxLen ==
    pc = "returned" => \A k \in DOMAIN parts : Len(parts[k]) <= maxLen

\* C20: splitIntoSubblocks returns; every iteration of the chunking loop
\* moves the cursor strictly forward, with a separator at any index of the
\* window or with none, and never past the end of the text, so the loop runs
\* at most length(text) times.
C20_LoopBounded ==
    pc = "chunking" => (cursor <= Len(rawText) /\ Len(parts) <= cursor)
C20_CursorAdvances ==
    (pc = "chunking" /\ pc' = "chunking") => (cursor' > cursor /\ Len(parts') = Len(parts) + 1)
C20_SplitTerminates ==
    /\ []C20_LoopBounded
    /\ [][C20_CursorAdvances]_vars
    /\ <>(pc = "returned")
C20_Witness ==
    /\ pc = "chunking"
    /\ cursor = Len(rawText)
    /\ \E k \in DOMAIN parts : parts[k] = <<>>
    /\ \E k \in DOMAIN parts : Len(parts[k]) = maxLen /\ Separator(parts[k]) = -1
    /\ \E k \in DOMAIN parts : parts[k] # <<>> /\ Len(parts[k]) < maxLen

\* The page's only bootstrap has succeeded and no submit handler has run:
\* no request is in flight and no timer is pending, so nothing more happens
\* on the page without a user action.
StartedAndIdle ==
    /\ page = "ready"
    /\ Len(boots) = 1
    /\ boots[1].status = "Started"
    /\ flows = <<>>

\* C21: once startConversation has succeeded, with or without a greeting in
\* its response, and the page waits for the user, botIsTyping is false and
\* the input and submit controls are enabled.
C21_InteractiveAfterStart ==
    StartedAndIdle => (~state.botIsTyping /\ InputEnabled(dom))

\* C22: at any time at most one fallback timer is pending on the page.
C22_OneFallbackPending == Cardinality(timers) <= 1

BootsWith(status) == {i \in DOMAIN boots : boots[i].status = status}

\* C23: on one page, however often startNewChatIfNeeded is called, at most
\* one bootstrap is in progress at a time, and at most one bootstrap succeeds:
\* startChat assigns chatId at most once.
C23_OneBootstrap ==
    /\ Cardinality(BootsWith("awaiting")) <= 1
    /\ Cardinality(BootsWith("Started")) <= 1

====
